---- MODULE Spec2Model ----
(***************************************************************************)
(* A model of switch_audio.py: one run of main() over a small filesystem.  *)
(* The external tools (ffprobe, ffmpeg) and os.replace are the environment:*)
(* what they return is a nondeterministic choice, what the script does     *)
(* with the result is translated from the source.                          *)
(*                                                                         *)
(* A path is a record [dir, stem, suffix]; its file name is stem \o suffix *)
(* and the suffix is what pathlib's Path.suffix returns ("" or ".ext").    *)
(***************************************************************************)
EXTENDS Integers, Sequences, FiniteSets, TLC

VARIABLES
    args,            \* the parsed command line (argparse namespace)
    tools,           \* the external tools shutil.which finds
    dirs,            \* the directories that exist
    files,           \* the files that exist: path -> content
    mtime,           \* st_mtime of the files of the audio directory
    pc,              \* position in main()
    audio_path,      \* main's local audio_path (None before it is resolved)
    audio_duration,  \* main's local audio_duration, in milliseconds (-1 before the probe)
    videos,          \* main's local videos, the sorted batch list
    idx,             \* the loop position in videos (1-based)
    video_duration,  \* the loop's local video_duration, in milliseconds
    output_path,     \* the loop's local output_path
    failures,        \* main's local failures: a sequence of [video, msg]
    exitCode,        \* the process exit status (-1 while running)
    exitMsg,         \* the SystemExit message or the uncaught exception
    cmds,            \* history: every ffmpeg invocation, in order
    probes,          \* history: every ffprobe invocation, in order
    attempts,        \* history: per video iteration, how it ended
    files0,          \* history: the files at the start of the run
    dirs0            \* history: the directories at the start of the run

vars == <<args, tools, dirs, files, mtime, pc, audio_path, audio_duration, videos,
          idx, video_duration, output_path, failures, exitCode, exitMsg, cmds,
          probes, attempts, files0, dirs0>>

(***************************************************************************)
(* Bounds of the model.                                                    *)
(***************************************************************************)
MaxVideos == 3      \* entries of the video directory
MaxMtime == 2       \* modification times are drawn from 1..MaxMtime

\* line 239: the tolerance 0.01 s, in milliseconds
EpsilonMs == 10

P(d, s, x) == [dir |-> d, stem |-> s, suffix |-> x]

\* Python's None, where a path or a file name is expected
None == P("", "", "")

\* Path.name
Name(p) == p.stem \o p.suffix

\* str.lower() on the suffixes the model uses
Lower(x) ==
    CASE x = ".MKV" -> ".mkv"
      [] x = ".MP3" -> ".mp3"
      [] OTHER -> x

VIDEO_EXTS == {".mp4", ".mov", ".mkv", ".avi", ".m4v", ".webm"}

\* Path.with_suffix(".mp3")
WithSuffixMp3(p) == P(p.dir, p.stem, ".mp3")

\* Path.exists() / Path.is_file()
Exists(p) == p \in DOMAIN files

\* The three directories of the command line defaults, and a place outside them.
AudioDir == "audio"
AudioInputDir == "audio-input"
VideoDir == "video"
ElseDir == "elsewhere"

\* d.glob("*.mp3") filtered by is_file(): case-sensitive on POSIX
GlobMp3(d) == {p \in DOMAIN files : p.dir = d /\ p.suffix = ".mp3"}

(***************************************************************************)
(* Byte order of the file names the model sorts (sorted() of Path objects  *)
(* of one directory compares their names as strings): 'B' < 'a', '.' < '_',*)
(* 'n' < 't'.                                                              *)
(***************************************************************************)
Collation ==
    << "2026.11.03-00.00.00.mp3", "B.MKV", "a.mp4", "a_newaudio.mp4", "a_tmp.mp4", "notes.txt",
       "other.mp3", "song.mp3", "x.mp3", "y.mp3" >>

SortKey(p) == CHOOSE i \in 1..Len(Collation) : Collation[i] = Name(p)

RECURSIVE Sorted(_)
\* sorted(S): the paths of S in ascending order
Sorted(S) ==
    IF S = {} THEN <<>>
    ELSE LET m == CHOOSE p \in S : \A q \in S : SortKey(p) <= SortKey(q)
         IN <<m>> \o Sorted(S \ {m})

(***************************************************************************)
(* File contents. A content is [kind, src]: "orig" (a file of the start of *)
(* the run, src = <<its path>>), "combined" (written by the concat run,    *)
(* src = the fragments in manifest order), "remux" (written by a           *)
(* replace-audio run, src = <<video, audio>>), "partial" (what a failed    *)
(* ffmpeg run may leave at its output path).                               *)
(***************************************************************************)
Orig(p) == [kind |-> "orig", src |-> <<p>>]
Combined(parts) == [kind |-> "combined", src |-> parts]
Remux(v, a) == [kind |-> "remux", src |-> <<v, a>>]
Partial == [kind |-> "partial", src |-> <<>>]

\* f with path p written (created or overwritten) with content c
Write(f, p, c) == [q \in (DOMAIN f) \cup {p} |-> IF q = p THEN c ELSE f[q]]

\* f with path p removed
Remove(f, p) == [q \in (DOMAIN f) \ {p} |-> f[q]]

(***************************************************************************)
(* pick_mp3: the set of its possible outcomes. An outcome is               *)
(* [kind, path, msg] with kind "path" (a file is returned), "none" (None   *)
(* is returned) or "exit" (SystemExit). max()/min() return the first       *)
(* extremal element in glob order, which the filesystem decides: with tied *)
(* modification times any tied file may come back.                         *)
(***************************************************************************)
Ret(p) == [kind |-> "path", path |-> p, msg |-> ""]
RetNone == [kind |-> "none", path |-> None, msg |-> ""]
Raise(m) == [kind |-> "exit", path |-> None, msg |-> m]

\* Candidate with the exact file name tried before the .mp3 sibling
CandidateExactFirst(audio_dir, name) ==
    LET candidate == P(audio_dir, name.stem, name.suffix)
        mp3_candidate == WithSuffixMp3(candidate)
    IN IF Exists(candidate) THEN candidate
       ELSE IF Lower(candidate.suffix) # ".mp3" /\ Exists(mp3_candidate)
       THEN mp3_candidate
       ELSE candidate

\* lines 61-65: the candidate path pick_mp3 tests with exists()
Candidate(audio_dir, name) ==
    LET candidate == P(audio_dir, name.stem, name.suffix)
        mp3_candidate == WithSuffixMp3(candidate)
    IN IF Lower(candidate.suffix) # ".mp3" /\ Exists(mp3_candidate)
       THEN mp3_candidate
       ELSE candidate

\* line 68: [p for p in files if p.name == name or p.stem == name]
Matches(fs, name) == {p \in fs : Name(p) = Name(name) \/ p.stem = Name(name)}

pick_mp3(audio_dir, mode, name) ==
    LET fs == GlobMp3(audio_dir)
    IN IF fs = {} THEN {RetNone}
       ELSE IF mode = "latest"
         THEN {Ret(p) : p \in {q \in fs : \A r \in fs : mtime[q] >= mtime[r]}}
       ELSE IF mode = "oldest"
         THEN {Ret(p) : p \in {q \in fs : \A r \in fs : mtime[q] <= mtime[r]}}
       ELSE IF mode = "name"
         THEN IF name = None
              THEN {Raise("--audio-name is required when using --audio-pick name")}
              ELSE IF Exists(Candidate(audio_dir, name))
                THEN {Ret(Candidate(audio_dir, name))}
              ELSE IF Cardinality(Matches(fs, name)) = 1
                THEN {Ret(p) : p \in Matches(fs, name)}
              ELSE IF Cardinality(Matches(fs, name)) > 1
                THEN {Raise("Multiple matches for --audio-name")}
              ELSE {Raise("No MP3 found")}
       ELSE {Raise("Unknown audio pick mode")}

\* line 229: [p for p in sorted(video_dir.iterdir()) if p.suffix.lower() in VIDEO_EXTS]
IsVideo(p) == Lower(p.suffix) \in VIDEO_EXTS

ListVideoFiles(video_dir) ==
    SelectSeq(Sorted({p \in DOMAIN files : p.dir = video_dir}), IsVideo)

\* build_output_path
build_output_path(video_path, suffix, in_place) ==
    IF in_place
    THEN P(video_path.dir, video_path.stem \o "_tmp", video_path.suffix)
    ELSE P(video_path.dir, video_path.stem \o suffix, video_path.suffix)

\* line 239, in milliseconds: audio_duration > (video_duration + 0.01)
UseShortest(a, v) == a > v + EpsilonMs

(***************************************************************************)
(* The inputs of a run: the command line and the filesystem it starts on.  *)
(***************************************************************************)
\* datetime.now().strftime("%Y.%m.%d-%H.%M.%S"), the clock of the run
Timestamp == "2026.11.03-00.00.00"

\* Durations ffprobe reports, in milliseconds
AudioDurations == {10005, 10020}
VideoDurations == {10000}

GivenAudio == P(ElseDir, "given", ".mp3")
MissingAudio == P(ElseDir, "absent", ".mp3")

VideoUniverse ==
    { P(VideoDir, "B", ".MKV"), P(VideoDir, "a", ".mp4"),
      P(VideoDir, "a_newaudio", ".mp4"), P(VideoDir, "a_tmp", ".mp4"),
      P(VideoDir, "notes", ".txt") }

AudioUniverse ==
    { P(AudioDir, "song", ".mp3"), P(AudioDir, "other", ".mp3"),
      P(AudioDir, Timestamp, ".mp3") }

FragmentUniverse == {P(AudioInputDir, "x", ".mp3"), P(AudioInputDir, "y", ".mp3")}

Suffixes == {"_newaudio", "_tmp", ""}

\* --audio-name values: absent, or a file name as [stem, suffix]
NameArgs == {None, P("", "song", ""), P("", "nope", "")}

Args(c, af, pick, nm, sfx, ip, ow, lst) ==
    [combine |-> c, audio_file |-> af, audio_pick |-> pick, audio_name |-> nm,
     suffix |-> sfx, in_place |-> ip, overwrite |-> ow, list_audio_lengths |-> lst]

\* Sets of at most n elements of S
SubsetsUpTo(S, n) == {T \in SUBSET S : Cardinality(T) <= n}

\* A directory at the start: absent, or present with some files
DirStates(U, n) ==
    {[exists |-> FALSE, names |-> {}]}
        \cup {[exists |-> TRUE, names |-> T] : T \in SubsetsUpTo(U, n)}

\* The state at the start of main(), after parse_args
Start(a, t, ad, mt, inp, vd, extra) ==
    /\ args = a
    /\ tools = t
    /\ dirs = {d \in {AudioDir, AudioInputDir, VideoDir} :
                  \/ d = AudioDir /\ ad.exists
                  \/ d = AudioInputDir /\ inp.exists
                  \/ d = VideoDir /\ vd.exists} \cup {ElseDir}
    /\ files = [p \in ad.names \cup inp.names \cup vd.names \cup extra |-> Orig(p)]
    /\ mtime = mt
    /\ pc = "tools"
    /\ audio_path = None
    /\ audio_duration = -1
    /\ videos = <<>>
    /\ idx = 1
    /\ video_duration = -1
    /\ output_path = None
    /\ failures = <<>>
    /\ exitCode = -1
    /\ exitMsg = ""
    /\ cmds = <<>>
    /\ probes = <<>>
    /\ attempts = <<>>
    /\ files0 = files
    /\ dirs0 = dirs

AllTools == {"ffmpeg", "ffprobe"}

\* Runs that vary the video side: directory contents, suffix, --in-place, --overwrite
InitVideo ==
    \E vd \in DirStates(VideoUniverse, MaxVideos), sfx \in Suffixes,
       ip \in BOOLEAN, ow \in BOOLEAN, how \in {"given", "picked", "combined"} :
        LET song == P(AudioDir, "song", ".mp3")
            frag == [exists |-> TRUE,
                     names |-> {P(AudioInputDir, "x", ".mp3"), P(AudioInputDir, "y", ".mp3")}]
            nodir == [exists |-> FALSE, names |-> {}]
            adir == [exists |-> TRUE, names |-> {song}]
        IN CASE how = "given" ->
                  Start(Args(FALSE, GivenAudio, "latest", None, sfx, ip, ow, FALSE),
                        AllTools, nodir, <<>>, nodir, vd, {GivenAudio})
             [] how = "picked" ->
                  Start(Args(FALSE, None, "latest", None, sfx, ip, ow, FALSE),
                        AllTools, adir, [p \in {song} |-> 1], nodir, vd, {})
             [] how = "combined" ->
                  Start(Args(TRUE, None, "latest", None, sfx, ip, ow, FALSE),
                        AllTools, adir, [p \in {song} |-> 1], frag, vd, {})

\* Runs that vary the audio side: --combine, --audio-file, the selection policy
InitAudio ==
    \E c \in BOOLEAN, af \in {None, GivenAudio, MissingAudio},
       pick \in {"latest", "oldest", "name"}, nm \in NameArgs,
       ad \in DirStates(AudioUniverse, Cardinality(AudioUniverse)),
       inp \in DirStates(FragmentUniverse, Cardinality(FragmentUniverse)),
       vd \in {[exists |-> FALSE, names |-> {}],
               [exists |-> TRUE, names |-> {P(VideoDir, "a", ".mp4")}]} :
        \E mt \in [ad.names -> 1..MaxMtime] :
            Start(Args(c, af, pick, nm, "_newaudio", FALSE, FALSE, FALSE),
                  AllTools, ad, mt, inp, vd, {GivenAudio})

\* Runs of --list-audio-lengths, and runs with a tool missing
InitOther ==
    \E c \in BOOLEAN, lst \in BOOLEAN, t \in SUBSET AllTools,
       ad \in DirStates(AudioUniverse, Cardinality(AudioUniverse)),
       vd \in DirStates({P(VideoDir, "a", ".mp4")}, 1) :
        /\ lst \/ t # AllTools
        /\ Start(Args(c, None, "latest", None, "_newaudio", FALSE, FALSE, lst), t, ad,
                 [p \in ad.names |-> 1],
                 [exists |-> TRUE, names |-> {P(AudioInputDir, "x", ".mp3")}], vd, {})

Init == InitVideo \/ InitAudio \/ InitOther

(***************************************************************************)
(* Steps of main().                                                        *)
(***************************************************************************)
\* The process ends: sys.exit / SystemExit / an uncaught exception / return
Exit(code, msg) ==
    /\ pc' = "exit"
    /\ exitCode' = code
    /\ exitMsg' = msg

\* One ffprobe call: the file, how it ended, and the duration it reported (-1: none)
Probe(p, r, d) == [path |-> p, result |-> r, duration |-> d]

Cmd(k, v, a, o, y, sh, ex, rc) ==
    [kind |-> k, video |-> v, audio |-> a, out |-> o, yes |-> y, shortest |-> sh,
     outExisted |-> ex, returncode |-> rc]

\* lines 196-197: which_or_die("ffmpeg"); which_or_die("ffprobe")
CheckTools ==
    /\ pc = "tools"
    /\ IF "ffmpeg" \notin tools THEN Exit(1, "Missing required tool: ffmpeg")
       ELSE IF "ffprobe" \notin tools THEN Exit(1, "Missing required tool: ffprobe")
       ELSE /\ pc' = IF args.list_audio_lengths THEN "list" ELSE "audio"
            /\ UNCHANGED <<exitCode, exitMsg>>
    /\ UNCHANGED <<args, tools, dirs, files, mtime, audio_path, audio_duration, videos,
                   idx, video_duration, output_path, failures, cmds, probes, attempts,
                   files0, dirs0>>

\* lines 199-210: --list-audio-lengths. The first k probes succeed; the next one,
\* if there is one, fails (CalledProcessError or the SystemExit of line 39).
ListAudioLengths ==
    /\ pc = "list"
    /\ LET audio_files == Sorted(GlobMp3(AudioDir))
       IN \E k \in 0..Len(audio_files), bad \in {"error", "unparseable"} :
          \E ds \in [1..k -> AudioDurations] :
            LET oks == [i \in 1..k |-> Probe(audio_files[i], "ok", ds[i])]
            IN IF k = Len(audio_files)
               THEN /\ probes' = probes \o oks
                    /\ Exit(0, "")
               ELSE /\ probes' = probes \o oks \o <<Probe(audio_files[k + 1], bad, -1)>>
                    /\ Exit(1, IF bad = "error" THEN "CalledProcessError"
                               ELSE "Could not parse duration")
    /\ UNCHANGED <<args, tools, dirs, files, mtime, audio_path, audio_duration, videos,
                   idx, video_duration, output_path, failures, cmds, attempts,
                   files0, dirs0>>

\* NeedsCombine with --combine honoured only when nothing was picked
NeedsCombineOnlyIfNone(picked) == picked = None

\* line 216: args.combine or audio_path is None
NeedsCombine(picked) == args.combine \/ picked = None

\* lines 212-216: the explicit file, or pick_mp3
SelectAudio ==
    /\ pc = "audio"
    /\ IF args.audio_file # None
       THEN /\ audio_path' = args.audio_file
            /\ pc' = "audio_exists"
            /\ UNCHANGED <<exitCode, exitMsg>>
       ELSE \E r \in pick_mp3(AudioDir, args.audio_pick, args.audio_name) :
              IF r.kind = "exit"
              THEN /\ Exit(1, r.msg)
                   /\ UNCHANGED audio_path
              ELSE /\ audio_path' = r.path
                   /\ pc' = IF NeedsCombine(r.path) THEN "combine"
                            ELSE "audio_exists"
                   /\ UNCHANGED <<exitCode, exitMsg>>
    /\ UNCHANGED <<args, tools, dirs, files, mtime, audio_duration, videos,
                   idx, video_duration, output_path, failures, cmds, probes, attempts,
                   files0, dirs0>>

\* lines 217-220 and combine_mp3s: ffmpeg may fail, and may then have left a
\* partial file at its output path (it runs with -y)
Combine ==
    /\ pc = "combine"
    /\ LET combined == P(AudioDir, Timestamp, ".mp3")
           fragments == Sorted(GlobMp3(AudioInputDir))
           cmd(rc) == Cmd("concat", None, None, combined, TRUE, FALSE,
                          Exists(combined), rc)
       IN IF fragments = <<>>
          THEN /\ Exit(1, "No MP3 files found")
               /\ UNCHANGED <<dirs, files, audio_path, cmds>>
          ELSE /\ dirs' = dirs \cup {AudioDir}
               /\ \/ /\ files' = Write(files, combined, Combined(fragments))
                     /\ cmds' = Append(cmds, cmd(0))
                     /\ audio_path' = combined
                     /\ pc' = "audio_exists"
                     /\ UNCHANGED <<exitCode, exitMsg>>
                  \/ /\ files' \in {files, Write(files, combined, Partial)}
                     /\ cmds' = Append(cmds, cmd(1))
                     /\ Exit(1, "CalledProcessError")
                     /\ UNCHANGED audio_path
    /\ UNCHANGED <<args, tools, mtime, audio_duration, videos, idx, video_duration,
                   output_path, failures, probes, attempts, files0, dirs0>>

\* lines 222-223
CheckAudioExists ==
    /\ pc = "audio_exists"
    /\ IF ~Exists(audio_path) THEN Exit(1, "Audio file not found")
       ELSE pc' = "video_dir" /\ UNCHANGED <<exitCode, exitMsg>>
    /\ UNCHANGED <<args, tools, dirs, files, mtime, audio_path, audio_duration, videos,
                   idx, video_duration, output_path, failures, cmds, probes, attempts,
                   files0, dirs0>>

\* lines 225-231
ListVideos ==
    /\ pc = "video_dir"
    /\ IF VideoDir \notin dirs
       THEN Exit(1, "Video directory not found") /\ UNCHANGED videos
       ELSE /\ videos' = ListVideoFiles(VideoDir)
            /\ IF videos' = <<>> THEN Exit(1, "No video files found")
               ELSE pc' = "audio_probe" /\ UNCHANGED <<exitCode, exitMsg>>
    /\ UNCHANGED <<args, tools, dirs, files, mtime, audio_path, audio_duration,
                   idx, video_duration, output_path, failures, cmds, probes, attempts,
                   files0, dirs0>>

\* line 233: audio_duration = ffprobe_duration(audio_path), outside the try
ProbeAudio ==
    /\ pc = "audio_probe"
    /\ \/ \E d \in AudioDurations :
            /\ Exists(audio_path)
            /\ audio_duration' = d
            /\ probes' = Append(probes, Probe(audio_path, "ok", d))
            /\ pc' = "loop"
            /\ UNCHANGED <<exitCode, exitMsg>>
       \/ /\ probes' = Append(probes, Probe(audio_path, "error", -1))
          /\ Exit(1, "CalledProcessError")
          /\ UNCHANGED audio_duration
       \/ /\ Exists(audio_path)
          /\ probes' = Append(probes, Probe(audio_path, "unparseable", -1))
          /\ Exit(1, "Could not parse duration")
          /\ UNCHANGED audio_duration
    /\ UNCHANGED <<args, tools, dirs, files, mtime, audio_path, videos,
                   idx, video_duration, output_path, failures, cmds, attempts,
                   files0, dirs0>>

\* The except clause of lines 274-276: the failure is recorded, the loop goes on
Fail(msg) ==
    /\ failures' = Append(failures, [video |-> videos[idx], msg |-> msg])
    /\ attempts' = Append(attempts, [video |-> videos[idx], outcome |-> "failed",
                                     cause |-> msg])
    /\ idx' = idx + 1
    /\ pc' = "loop"
    /\ UNCHANGED <<exitCode, exitMsg>>

\* The end of an iteration that raised nothing
Succeed ==
    /\ attempts' = Append(attempts, [video |-> videos[idx], outcome |-> "ok",
                                     cause |-> ""])
    /\ idx' = idx + 1
    /\ pc' = "loop"
    /\ UNCHANGED <<failures, exitCode, exitMsg>>

\* An exception the except clause of line 274 does not catch ends the process
Escape(msg) ==
    /\ attempts' = Append(attempts, [video |-> videos[idx], outcome |-> "exit",
                                     cause |-> msg])
    /\ Exit(1, msg)
    /\ UNCHANGED <<failures, idx>>

\* lines 238-239: video_duration = ffprobe_duration(video_path). ffprobe exiting
\* non-zero raises CalledProcessError, an Exception; output that float() rejects
\* raises SystemExit (line 39), which is no Exception.
ProbeVideo ==
    /\ pc = "loop"
    /\ idx <= Len(videos)
    /\ \/ \E d \in VideoDurations :
            /\ Exists(videos[idx])
            /\ video_duration' = d
            /\ probes' = Append(probes, Probe(videos[idx], "ok", d))
            /\ pc' = "plan"
            /\ UNCHANGED <<failures, attempts, idx, exitCode, exitMsg>>
       \/ /\ probes' = Append(probes, Probe(videos[idx], "error", -1))
          /\ Fail("CalledProcessError: ffprobe")
          /\ UNCHANGED video_duration
       \/ /\ Exists(videos[idx])
          /\ probes' = Append(probes, Probe(videos[idx], "unparseable", -1))
          /\ Escape("Could not parse duration")
          /\ UNCHANGED video_duration
    /\ UNCHANGED <<args, tools, dirs, files, mtime, audio_path, audio_duration, videos,
                   output_path, cmds, files0, dirs0>>

\* OutputRejected with the check skipped in in-place mode (where -y is passed)
OutputRejectedNotInPlace(out) == Exists(out) /\ ~args.overwrite /\ ~args.in_place

\* OutputRejected with the existence test dropped
OutputRejectedNever(out) == FALSE

\* line 242: output_path.exists() and not args.overwrite
OutputRejected(out) == Exists(out) /\ ~args.overwrite

\* lines 241-243
PlanOutput ==
    /\ pc = "plan"
    /\ output_path' = build_output_path(videos[idx], args.suffix, args.in_place)
    /\ IF OutputRejected(output_path')
       THEN Fail("Output exists")
       ELSE /\ pc' = "transcode"
            /\ UNCHANGED <<failures, attempts, idx, exitCode, exitMsg>>
    /\ UNCHANGED <<args, tools, dirs, files, mtime, audio_path, audio_duration, videos,
                   video_duration, cmds, probes, files0, dirs0>>

\* ReplaceCmd with the second input taken from --audio-file instead of audio_path
ReplaceCmdArgsAudio(rc) ==
    Cmd("replace", videos[idx], args.audio_file, output_path,
        args.overwrite \/ args.in_place,
        UseShortest(audio_duration, video_duration),
        Exists(output_path), rc)

\* lines 247-268: the ffmpeg command line of the iteration
ReplaceCmd(rc) ==
    Cmd("replace", videos[idx], audio_path, output_path,
        args.overwrite \/ args.in_place,
        UseShortest(audio_duration, video_duration),
        Exists(output_path), rc)

\* ffmpeg can succeed only with both inputs present, and refuses an output that
\* is one of its inputs before it opens it
CanTranscode ==
    /\ Exists(videos[idx])
    /\ Exists(audio_path)
    /\ output_path \notin {videos[idx], audio_path}

\* line 270: run(cmd), check=True
Transcode ==
    /\ pc = "transcode"
    /\ \/ /\ CanTranscode
          /\ files' = Write(files, output_path, Remux(videos[idx], audio_path))
          /\ cmds' = Append(cmds, ReplaceCmd(0))
          /\ IF args.in_place
             THEN /\ pc' = "replace"
                  /\ UNCHANGED <<failures, attempts, idx, exitCode, exitMsg>>
             ELSE Succeed
       \/ /\ files' = files
          /\ cmds' = Append(cmds, ReplaceCmd(1))
          /\ Fail("CalledProcessError: ffmpeg")
       \/ /\ output_path \notin {videos[idx], audio_path}
          /\ files' = Write(files, output_path, Partial)
          /\ cmds' = Append(cmds, ReplaceCmd(1))
          /\ Fail("CalledProcessError: ffmpeg")
    /\ UNCHANGED <<args, tools, dirs, mtime, audio_path, audio_duration, videos,
                   video_duration, output_path, probes, files0, dirs0>>

\* lines 272-273: os.replace(output_path, video_path)
Replace ==
    /\ pc = "replace"
    /\ \/ /\ Exists(output_path)
          /\ files' = Remove(Write(files, videos[idx], files[output_path]), output_path)
          /\ Succeed
       \/ /\ files' = files
          /\ Fail("OSError: replace")
    /\ UNCHANGED <<args, tools, dirs, mtime, audio_path, audio_duration, videos,
                   video_duration, output_path, cmds, probes, files0, dirs0>>

\* lines 278-279, and the return of main
Finish ==
    /\ pc = "loop"
    /\ idx > Len(videos)
    /\ IF failures # <<>> THEN Exit(1, "video(s) failed") ELSE Exit(0, "")
    /\ UNCHANGED <<args, tools, dirs, files, mtime, audio_path, audio_duration, videos,
                   idx, video_duration, output_path, failures, cmds, probes, attempts,
                   files0, dirs0>>

Next ==
    \/ CheckTools
    \/ ListAudioLengths
    \/ SelectAudio
    \/ Combine
    \/ CheckAudioExists
    \/ ListVideos
    \/ ProbeAudio
    \/ ProbeVideo
    \/ PlanOutput
    \/ Transcode
    \/ Replace
    \/ Finish

Spec == Init /\ [][Next]_vars

(***************************************************************************)
(* The Audio Selector alone: --audio-pick name over an audio directory     *)
(* that also holds files other than *.mp3.                                 *)
(***************************************************************************)
PickUniverse ==
    { P(AudioDir, "song", ".mp3"), P(AudioDir, "song", ".wav"), P(AudioDir, "song", ""),
      P(AudioDir, "song", ".MP3"), P(AudioDir, "track", ".mp3"),
      P(AudioDir, "track.v2", ".mp3") }

PickNames ==
    { None, P("", "song", ""), P("", "song", ".mp3"), P("", "song", ".wav"),
      P("", "song", ".MP3"), P("", "track", ".v2"), P("", "track", ""),
      P("", "nope", "") }

InitPick ==
    \E S \in SUBSET PickUniverse, nm \in PickNames :
        Start(Args(FALSE, None, "name", nm, "_newaudio", FALSE, FALSE, FALSE),
              AllTools, [exists |-> TRUE, names |-> S], [p \in S |-> 1],
              [exists |-> FALSE, names |-> {}],
              [exists |-> TRUE, names |-> {P(VideoDir, "a", ".mp4")}], {})

NextPick == CheckTools \/ SelectAudio

SpecPick == InitPick /\ [][NextPick]_vars

(***************************************************************************)
(* Vocabulary of the properties.                                           *)
(***************************************************************************)
\* The batch loop of lines 236-276 has been entered
InBatch == pc \in {"loop", "plan", "transcode", "replace"}

\* The batch loop was entered at some point of the run
BatchBegun == audio_duration >= 0

Range(seq) == {seq[i] : i \in DOMAIN seq}

\* The failure entries recorded for video v
FailuresOf(v) == {k \in DOMAIN failures : failures[k].video = v}

\* The replace-audio invocations of ffmpeg
ReplaceCmds == {k \in DOMAIN cmds : cmds[k].kind = "replace"}

\* Video v's file is what it was at the start of the run
SourceIntact(v) == v \in DOMAIN files /\ files[v] = files0[v]

PerVideoCauses == {"Output exists", "CalledProcessError: ffmpeg", "OSError: replace"}
ProbeCauses == {"CalledProcessError: ffprobe", "Could not parse duration"}

\* The videos whose iteration did not end normally
FailedVideos == {i \in DOMAIN attempts : attempts[i].outcome # "ok"}

(***************************************************************************)
(* C1: when video i fails on an output collision without --overwrite, on   *)
(* an ffmpeg failure or on a failed os.replace, exactly one failure entry  *)
(* (its path and the message) is recorded for it, every video of the batch *)
(* is processed in sorted order, and the final failure count is the number *)
(* of videos that failed.                                                  *)
(***************************************************************************)
C1_PerVideoErrorIsolated ==
    (pc = "exit" /\ \E i \in DOMAIN attempts : attempts[i].cause \in PerVideoCauses) =>
        /\ \A i \in DOMAIN attempts :
              attempts[i].cause \in PerVideoCauses =>
                  /\ Cardinality(FailuresOf(attempts[i].video)) = 1
                  /\ \A k \in FailuresOf(attempts[i].video) :
                        failures[k].msg = attempts[i].cause
        /\ Len(attempts) = Len(videos)
        /\ \A i \in DOMAIN attempts :
              attempts[i].video = videos[i] /\ attempts[i].outcome # "exit"
        /\ Len(failures) = Cardinality(FailedVideos)

(***************************************************************************)
(* C2: a failed duration probe of a video (ffprobe exits with an error, or *)
(* prints something that is no number) is recorded as a failure of that    *)
(* video only, and the loop goes on to every later video.                  *)
(***************************************************************************)
C2_VideoProbeFailureIsolated ==
    \A i \in DOMAIN attempts :
        attempts[i].cause \in ProbeCauses =>
            /\ attempts[i].outcome = "failed"
            /\ FailuresOf(attempts[i].video) # {}
            /\ (pc = "exit" => Len(attempts) = Len(videos))

(***************************************************************************)
(* C3: in in-place mode a video's original file is changed only after the  *)
(* transcode of that video succeeded, and a video whose probe,             *)
(* output-exists check or transcode failed still has its original file.    *)
(***************************************************************************)
C3_InPlaceOriginalSafe ==
    args.in_place =>
        \A i \in DOMAIN attempts :
            LET v == attempts[i].video
            IN /\ ~SourceIntact(v) =>
                     \E k \in ReplaceCmds : cmds[k].video = v /\ cmds[k].returncode = 0
               /\ attempts[i].cause \in ProbeCauses \cup
                                        {"Output exists", "CalledProcessError: ffmpeg"}
                     => SourceIntact(v)

(***************************************************************************)
(* C4: without --overwrite no iteration writes its output to a path that   *)
(* exists: ffmpeg is only ever started on an output path that does not     *)
(* exist, and a video whose output path exists is recorded as a failure    *)
(* without ffmpeg being started for it; in both modes, for every suffix.   *)
(***************************************************************************)
C4_NoOverwriteWithoutPermission ==
    ~args.overwrite =>
        /\ pc = "transcode" => ~Exists(output_path)
        /\ \A k \in ReplaceCmds : ~cmds[k].outExisted
        /\ \A i \in DOMAIN attempts :
              attempts[i].cause = "Output exists" =>
                  /\ FailuresOf(attempts[i].video) # {}
                  /\ \A k \in ReplaceCmds : cmds[k].video # attempts[i].video

\* A run without --overwrite, in in-place mode, that rejected one video for its
\* existing output path and transcoded another
C4_Witness ==
    /\ ~args.overwrite
    /\ args.in_place
    /\ \E i \in DOMAIN attempts : attempts[i].cause = "Output exists"
    /\ \E k \in ReplaceCmds : cmds[k].returncode = 0

(***************************************************************************)
(* C5: a run that entered the batch exits zero only with no failure,       *)
(* exits non-zero with one or more, and exits non-zero only after every    *)
(* video of the batch was attempted.                                       *)
(***************************************************************************)
C5_ExitAfterWholeBatch ==
    (pc = "exit" /\ BatchBegun) =>
        /\ exitCode = 0 => failures = <<>>
        /\ failures # <<>> => exitCode # 0
        /\ exitCode # 0 => Len(attempts) = Len(videos)

\* The configuration errors of a run that is not --list-audio-lengths
ConfigError ==
    \/ tools # AllTools
    \/ VideoDir \notin dirs0
    \/ args.audio_file = None /\ AudioDir \notin dirs0
    \/ args.audio_file = None /\ args.audio_pick = "name" /\ args.audio_name = None

(***************************************************************************)
(* C6: a configuration error (a tool, the video or the audio directory, or *)
(* --audio-name under the name policy is missing) ends the run non-zero    *)
(* before any processing: ffmpeg is never started and no file or directory *)
(* is created, --combine or not.                                           *)
(***************************************************************************)
C6_ConfigErrorAbortsFirst ==
    (~args.list_audio_lengths /\ ConfigError) =>
        /\ cmds = <<>>
        /\ files = files0
        /\ dirs = dirs0
        /\ pc = "exit" => exitCode # 0

(***************************************************************************)
(* C7: one audio source per run: the audio path is resolved and its        *)
(* duration probed exactly once, before any video is probed or transcoded; *)
(* every transcode of the run takes that audio path and the truncation     *)
(* decided from that duration, and no iteration changes either.            *)
(***************************************************************************)
C7_OneAudioSource ==
    ~args.list_audio_lengths =>
        /\ ~BatchBegun =>
              /\ ReplaceCmds = {}
              /\ \A k \in DOMAIN probes : probes[k].result # "ok"
              /\ Len(probes) <= 1
        /\ BatchBegun =>
              /\ probes[1] = Probe(audio_path, "ok", audio_duration)
              /\ \A k \in DOMAIN probes : k > 1 => probes[k].path \in Range(videos)
              /\ \A k \in ReplaceCmds :
                    /\ cmds[k].audio = audio_path
                    /\ \E d \in VideoDurations :
                          cmds[k].shortest = UseShortest(audio_duration, d)

\* A finished batch in which two videos were transcoded with a picked or combined track
C7_Witness ==
    /\ pc = "exit"
    /\ args.audio_file = None
    /\ Cardinality(ReplaceCmds) >= 2

\* The audio source of the batch is a track the concat run of this run produced
FreshlyCombined ==
    /\ Exists(audio_path)
    /\ files[audio_path].kind = "combined"
    /\ \E k \in DOMAIN cmds :
          cmds[k].kind = "concat" /\ cmds[k].out = audio_path /\ cmds[k].returncode = 0
    /\ \A k \in ReplaceCmds : cmds[k].audio = audio_path

(***************************************************************************)
(* C8: "combine wins": with --combine set, once video processing is        *)
(* reached the audio source is a track combined in this run, whatever the  *)
(* selection policy would have selected and whatever other audio options   *)
(* are given.                                                              *)
(***************************************************************************)
C8_CombineWins == (args.combine /\ InBatch) => FreshlyCombined

(***************************************************************************)
(* C8, amended: with --combine set and no --audio-file given, once video   *)
(* processing is reached the audio source is a track combined in this run, *)
(* whatever the selection policy would have selected.                      *)
(***************************************************************************)
C8_CombineWinsOverSelection ==
    (args.combine /\ args.audio_file = None /\ InBatch) => FreshlyCombined

\* --combine in a run whose audio directory held MP3 files the policy could select
C8_Witness ==
    /\ args.combine
    /\ args.audio_file = None
    /\ InBatch
    /\ attempts # <<>>
    /\ \E p \in DOMAIN files0 : p.dir = AudioDir /\ p.suffix = ".mp3"

\* --audio-pick name returned a file
PickedByName ==
    /\ pc = "audio_exists"
    /\ args.audio_file = None
    /\ args.audio_pick = "name"

(***************************************************************************)
(* C9: ByName(name) resolves (a) to the file named exactly name if it      *)
(* exists, otherwise (b) if name has no extension to name + ".mp3" if it   *)
(* exists, otherwise (c) to the unique candidate whose file name or stem   *)
(* is name; so a returned file has name as its file name or its stem.      *)
(***************************************************************************)
C9_ByNameOrder ==
    PickedByName =>
        LET n == args.audio_name
            exact == P(AudioDir, n.stem, n.suffix)
            withExt == P(AudioDir, Name(n), ".mp3")
        IN /\ IF Exists(exact) THEN audio_path = exact
              ELSE IF n.suffix = "" /\ Exists(withExt) THEN audio_path = withExt
              ELSE /\ audio_path \in GlobMp3(AudioDir)
                   /\ Name(audio_path) = Name(n) \/ audio_path.stem = Name(n)
           /\ Name(audio_path) = Name(n) \/ audio_path.stem = Name(n)

(***************************************************************************)
(* C9, amended: ByName(name) resolves first, when name's extension is not  *)
(* .mp3 (absent or another one), to name with its extension replaced by    *)
(* .mp3 if that file exists; otherwise to the file named exactly name if   *)
(* it exists; otherwise to the unique *.mp3 candidate whose file name or   *)
(* stem is name. A returned file has name as its file name or stem, or is  *)
(* that .mp3 sibling.                                                      *)
(***************************************************************************)
C9_ByNameOrderSiblingFirst ==
    PickedByName =>
        LET n == args.audio_name
            exact == P(AudioDir, n.stem, n.suffix)
            sibling == P(AudioDir, n.stem, ".mp3")
            byStem == {p \in GlobMp3(AudioDir) : Name(p) = Name(n) \/ p.stem = Name(n)}
        IN /\ IF Lower(n.suffix) # ".mp3" /\ Exists(sibling) THEN audio_path = sibling
              ELSE IF Exists(exact) THEN audio_path = exact
              ELSE byStem = {audio_path}
           /\ \/ Name(audio_path) = Name(n)
              \/ audio_path.stem = Name(n)
              \/ audio_path = sibling

\* The file named exactly name exists and its .mp3 sibling was returned instead
C9_Witness ==
    /\ PickedByName
    /\ Exists(P(AudioDir, args.audio_name.stem, args.audio_name.suffix))
    /\ audio_path # P(AudioDir, args.audio_name.stem, args.audio_name.suffix)

\* Video j's file is its original, or what its own successful in-place
\* replacement put there
SourceOwn(j) ==
    \/ SourceIntact(videos[j])
    \/ /\ args.in_place
       /\ j \in DOMAIN attempts
       /\ attempts[j].outcome = "ok"
       /\ videos[j] \in DOMAIN files
       /\ files[videos[j]] = Remux(videos[j], audio_path)

(***************************************************************************)
(* C10: for every suffix, --in-place and --overwrite, the output path of a *)
(* video is neither its own source path nor the source path of another     *)
(* video of the batch, and no source file of the batch is written,         *)
(* replaced or removed except by its own successful in-place replacement:  *)
(* every video still has its original source when its turn comes.          *)
(***************************************************************************)
C10_SourcesUntouched ==
    /\ output_path \notin Range(videos)
    /\ \A j \in DOMAIN videos : SourceOwn(j)
    /\ \A j \in DOMAIN videos : j >= idx /\ pc = "loop" => SourceIntact(videos[j])

(***************************************************************************)
(* C10, amended: without --overwrite, for every suffix and in both modes,  *)
(* ffmpeg is never started on an output path that is a source path of the  *)
(* batch (a video whose output path is one is rejected), and no source     *)
(* file of the batch is written, replaced or removed except by its own     *)
(* successful in-place replacement: every video still has its original     *)
(* source when its turn comes.                                             *)
(***************************************************************************)
C10_SourcesUntouchedWithoutOverwrite ==
    ~args.overwrite =>
        /\ \A k \in ReplaceCmds : cmds[k].out \notin Range(videos)
        /\ pc \in {"transcode", "replace"} => output_path \notin Range(videos)
        /\ \A j \in DOMAIN videos : SourceOwn(j)
        /\ \A j \in DOMAIN videos : j >= idx /\ pc = "loop" => SourceIntact(videos[j])

\* Without --overwrite, a video whose output path is the source of another listed
\* video was rejected, and that other video was then converted from its original
C10_Witness ==
    /\ ~args.overwrite
    /\ pc = "exit"
    /\ \E i, j \in DOMAIN attempts :
          /\ i < j
          /\ attempts[i].cause = "Output exists"
          /\ build_output_path(videos[i], args.suffix, args.in_place) = videos[j]
          /\ attempts[j].outcome = "ok"

====
